---- MODULE Spec2Model ----
(***************************************************************************)
(* A model of the concurrent chunked extraction engine of urlsluice        *)
(* (internal/extractor/extractor.go): New, the precondition checks of      *)
(* Extract, the chunk reader goroutine, the worker goroutines, the         *)
(* goroutine that closes the result channels, and the merge loop that      *)
(* Extract itself runs.                                                    *)
(***************************************************************************)
EXTENDS Integers, Sequences, FiniteSets, TLC

(***************************************************************************)
(* Program constants and bounds.                                           *)
(***************************************************************************)

\* extractor.go:68  maxFileSize = 100 * 1024 * 1024
maxFileSize == 104857600

\* extractor.go:70  chunkSize = 1 * 1024 * 1024, the size of the read buffer
chunkSize == 1048576

\* extractor.go:72  maxGoroutines = 4.  The pool and the channel capacities
\* are scaled down so that the state space stays finite and small; every
\* buffer and the pool keep the same relative sizes as in the source
\* (chunks and results hold maxGoroutines items, errors holds one).
maxGoroutines == 2

\* extractor.go:197  errors := make(chan error, 1)
errorsCap == 1

\* Largest number of data chunks in an input stream.
MaxChunks == 3

\* How far beyond the versions 0..5 the UUID versions offered to New reach.
VersionSpan == 1

Workers == 1..maxGoroutines

(***************************************************************************)
(* Errors.  An error value is a string, "nil" standing for the nil error;  *)
(* an *ExtractorError is the record of its Op and of the error it wraps.   *)
(***************************************************************************)
NoErr == "nil"

Canceled == "context canceled"

DeadlineExceeded == "context deadline exceeded"

ErrNilReader == "nil reader"

ErrFileInfo == "error getting file info"

ErrTooLarge == "file too large: maximum size is 100MB"

ErrInvalidVersion == "invalid UUID version: must be between 0 and 5"

ErrRead == "unexpected EOF"

EOF == "EOF"

ExtractorError(op, err) == [Op |-> op, Err |-> err]

NilError == [Op |-> "", Err |-> NoErr]

(***************************************************************************)
(* Input text.  A chunk of text is the sequence of its lines; the regular  *)
(* expressions of the patterns package are tabulated on the lines used.    *)
(***************************************************************************)
LineUUID4 == "550e8400-e29b-41d4-a716-446655440000"

LineUUID1 == "550e8400-e29b-11d4-a716-446655440000"

LineEmail == "user@example.com"

LineURL == "https://example.com/users?id=123"

LineIP == "192.168.1.1"

LineBadIP == "256.256.256.256"

\* The two parts of LineEmail and of LineUUID4 when the end of a Read falls
\* inside the line (string(buffer[:n]), extractor.go:244): the part that
\* ends one chunk and the part that begins the next.
LineEmailHead == "user@example.co"

LineEmailTail == "m"

LineUUID4Head == "550e8400-e29b-41d4-a716-4466"

LineUUID4Tail == "55440000"

\* A line of 64 KiB: letters up to an email domain, as the very long line of
\* TestEdgeCases; the email matcher matches the whole line.
LineLong == "aaaaaaaa...(65536 bytes)@example.com"

\* bufio.Scanner with its default buffer: Scan returns false (ErrTooLong,
\* which processChunk does not look at) on a line that does not fit.
TooLong(line) == line = LineLong

\* len(line) in bytes.
LineBytes(line) == IF TooLong(line) THEN 65536 ELSE Len(line)

\* len(data) in bytes for a piece of text of the given lines, which are
\* separated by a newline.
RECURSIVE DataBytes(_)
DataBytes(lines) ==
    IF lines = <<>> THEN 0
    ELSE IF Len(lines) = 1 THEN LineBytes(lines[1])
    ELSE LineBytes(Head(lines)) + 1 + DataBytes(Tail(lines))

\* The lines that end a chunk without a newline after them.
Heads == {LineEmailHead, LineUUID4Head}

\* The version digit of a UUID: the first digit of its third group.
VersionDigit(uuid) ==
    IF uuid = LineUUID4 THEN 4 ELSE IF uuid = LineUUID1 THEN 1 ELSE 0

\* UUIDFindAll with a regular expression that accepts every version digit.
UUIDFindAllAnyVersion(v, line) ==
    IF line \in {LineUUID4, LineUUID1} THEN {line} ELSE {}

\* patterns.UUIDRegexMap[v].FindAllString(line, -1)
UUIDFindAll(v, line) ==
    IF v = 4 /\ line = LineUUID4 THEN {LineUUID4}
    ELSE IF v = 1 /\ line = LineUUID1 THEN {LineUUID1}
    ELSE {}

\* patterns.EmailRegex.FindAllString(line, -1)
EmailFindAll(line) ==
    IF line \in {LineEmail, LineEmailHead, LineLong} THEN {line} ELSE {}

\* patterns.DomainRegex.FindAllStringSubmatch(line, -1), group 1
DomainFindAll(line) == IF line = LineURL THEN {"example.com"} ELSE {}

\* patterns.IPRegex.FindAllString(line, -1)
IPFindAll(line) == IF line \in {LineIP, LineBadIP} THEN {line} ELSE {}

\* The four octets of a dotted token matched by IPRegex.
Octets(ip) ==
    IF ip = LineIP THEN <<192, 168, 1, 1>>
    ELSE IF ip = LineBadIP THEN <<256, 256, 256, 256>>
    ELSE <<>>

\* net.ParseIP(ip) != nil
ParseIPOk(ip) == ip = LineIP

\* patterns.QueryParamRegex.FindAllStringSubmatch(line, -1), match[1]+"="+match[2]
ParamFindAll(line) == IF line = LineURL THEN {"id=123"} ELSE {}

\* The i-th chunk of text of the input streams.
DataAt(i) ==
    IF i % 2 = 1 THEN <<LineEmail, LineUUID4>>
    ELSE <<LineURL, LineEmail, LineBadIP, LineIP>>

\* The first chunk of text delivered by Read calls of other sizes: in two
\* reads that end between its lines, inside its email, inside its UUID.
SplitInputs ==
    { << <<LineEmail>>, <<LineUUID4>> >>,
      << <<LineEmailHead>>, <<LineEmailTail, LineUUID4>> >>,
      << <<LineEmail, LineUUID4Head>>, <<LineUUID4Tail>> >> }

\* A chunk with an email on the line after a line of 64 KiB.
LongInputs == { << <<LineLong, LineEmail>> >> }

\* A chunk with a UUID of version 1 and a UUID of version 4.
UUIDInputs == { << <<LineUUID1, LineUUID4>> >> }

\* The input streams: the first n chunks of the text, n <= MaxChunks, the
\* first chunk in reads of other sizes, the chunk with a long line and the
\* chunk with UUIDs of two versions.
Inputs ==
    { [i \in 1..n |-> DataAt(i)] : n \in 0..MaxChunks }
        \cup SplitInputs \cup LongInputs \cup UUIDInputs

\* The lines of a text given as successive pieces: a piece that ends
\* without a newline continues with the first line of the next piece.
RECURSIVE JoinLines(_)
JoinLines(ls) ==
    IF Len(ls) < 2 THEN ls
    ELSE IF ls[1] \in Heads
    THEN JoinLines(<<ls[1] \o ls[2]>> \o SubSeq(ls, 3, Len(ls)))
    ELSE <<ls[1]>> \o JoinLines(Tail(ls))

RECURSIVE Flatten(_)
Flatten(inp) == IF inp = <<>> THEN <<>> ELSE Head(inp) \o Flatten(Tail(inp))

\* The lines of the whole text of an input stream.
Text(inp) == JoinLines(Flatten(inp))

(***************************************************************************)
(* Results.  A Go map is the record of whether it is allocated (non-nil)   *)
(* and of its key set.                                                     *)
(***************************************************************************)
NilMap == [alloc |-> FALSE, keys |-> {}]

MakeMap == [alloc |-> TRUE, keys |-> {}]

\* Config values offered to New.
Configs ==
    [UUIDVersion : (0 - VersionSpan)..(5 + VersionSpan), ExtractEmails : BOOLEAN,
     ExtractDomains : BOOLEAN, ExtractIPs : BOOLEAN, ExtractParams : BOOLEAN]

\* The configurations the pipeline is explored with in depth: every
\* category enabled, and emails only.
AllEnabled ==
    [UUIDVersion |-> 4, ExtractEmails |-> TRUE, ExtractDomains |-> TRUE,
     ExtractIPs |-> TRUE, ExtractParams |-> TRUE]

EmailsOnly ==
    [UUIDVersion |-> 0, ExtractEmails |-> TRUE, ExtractDomains |-> FALSE,
     ExtractIPs |-> FALSE, ExtractParams |-> FALSE]

PipeConfigs == {AllEnabled, EmailsOnly}

\* ValidConfig without the test of the lower limit.
ValidConfigNoLower(cfg) == ~(cfg.UUIDVersion > 5)

\* New's validation of the configuration (extractor.go:89)
ValidConfig(cfg) == ~(cfg.UUIDVersion < 0 \/ cfg.UUIDVersion > 5)

\* extractor.newResults
newResults(cfg) ==
    [UUIDs   |-> IF cfg.UUIDVersion > 0 THEN MakeMap ELSE NilMap,
     Emails  |-> IF cfg.ExtractEmails THEN MakeMap ELSE NilMap,
     Domains |-> IF cfg.ExtractDomains THEN MakeMap ELSE NilMap,
     IPs     |-> IF cfg.ExtractIPs THEN MakeMap ELSE NilMap,
     Params  |-> IF cfg.ExtractParams THEN MakeMap ELSE NilMap]

\* m[k] = true for every k of ks (a write to a nil map panics in Go; the
\* callers only write to an allocated map or write nothing)
MapPutAll(m, ks) == [alloc |-> m.alloc, keys |-> m.keys \cup ks]

\* lineMatches without the call of net.ParseIP.
lineMatchesNoParse(cfg, line) ==
    [UUIDs   |-> IF cfg.UUIDVersion > 0 /\ cfg.UUIDVersion \in 1..5
                 THEN UUIDFindAll(cfg.UUIDVersion, line) ELSE {},
     Emails  |-> IF cfg.ExtractEmails THEN EmailFindAll(line) ELSE {},
     Domains |-> IF cfg.ExtractDomains THEN DomainFindAll(line) ELSE {},
     IPs     |-> IF cfg.ExtractIPs THEN IPFindAll(line) ELSE {},
     Params  |-> IF cfg.ExtractParams THEN ParamFindAll(line) ELSE {}]

\* lineMatches applying the domain matcher whatever the configuration.
lineMatchesAnyDomain(cfg, line) ==
    [UUIDs   |-> IF cfg.UUIDVersion > 0 /\ cfg.UUIDVersion \in 1..5
                 THEN UUIDFindAll(cfg.UUIDVersion, line) ELSE {},
     Emails  |-> IF cfg.ExtractEmails THEN EmailFindAll(line) ELSE {},
     Domains |-> DomainFindAll(line),
     IPs     |-> IF cfg.ExtractIPs
                 THEN {ip \in IPFindAll(line) : ParseIPOk(ip)} ELSE {},
     Params  |-> IF cfg.ExtractParams THEN ParamFindAll(line) ELSE {}]

\* The keys one pass of the scanner loop of processChunk writes, per
\* category, for the line it scanned.
lineMatches(cfg, line) ==
    [UUIDs   |-> IF cfg.UUIDVersion > 0 /\ cfg.UUIDVersion \in 1..5
                 THEN UUIDFindAll(cfg.UUIDVersion, line) ELSE {},
     Emails  |-> IF cfg.ExtractEmails THEN EmailFindAll(line) ELSE {},
     Domains |-> IF cfg.ExtractDomains THEN DomainFindAll(line) ELSE {},
     IPs     |-> IF cfg.ExtractIPs
                 THEN {ip \in IPFindAll(line) : ParseIPOk(ip)} ELSE {},
     Params  |-> IF cfg.ExtractParams THEN ParamFindAll(line) ELSE {}]

\* Scanned for a scanner without a limit on the length of a line.
ScannedUnlimited(lines) == DOMAIN lines

\* The lines for which scanner.Scan() returns true: those before the
\* first line that is too long for the scanner.
Scanned(lines) == {i \in DOMAIN lines : \A j \in 1..i : ~TooLong(lines[j])}

\* The scanner loop of processChunk: the maps of newResults with the keys
\* written for every line the scanner delivers.
scanLines(cfg, lines) ==
    [UUIDs   |-> MapPutAll(newResults(cfg).UUIDs,
                           UNION {lineMatches(cfg, lines[i]).UUIDs : i \in Scanned(lines)}),
     Emails  |-> MapPutAll(newResults(cfg).Emails,
                           UNION {lineMatches(cfg, lines[i]).Emails : i \in Scanned(lines)}),
     Domains |-> MapPutAll(newResults(cfg).Domains,
                           UNION {lineMatches(cfg, lines[i]).Domains : i \in Scanned(lines)}),
     IPs     |-> MapPutAll(newResults(cfg).IPs,
                           UNION {lineMatches(cfg, lines[i]).IPs : i \in Scanned(lines)}),
     Params  |-> MapPutAll(newResults(cfg).Params,
                           UNION {lineMatches(cfg, lines[i]).Params : i \in Scanned(lines)})]

\* extractor.processChunk: an empty result when the context is done,
\* otherwise the matches of every line of the chunk.
processChunk(cfg, ctx, data) ==
    IF ctx # NoErr THEN newResults(cfg) ELSE scanLines(cfg, data)

\* A merge that keeps the last partial result only.
mergeResultsOverwrite(final, r) ==
    [UUIDs   |-> [alloc |-> final.UUIDs.alloc, keys |-> r.UUIDs.keys],
     Emails  |-> [alloc |-> final.Emails.alloc, keys |-> r.Emails.keys],
     Domains |-> [alloc |-> final.Domains.alloc, keys |-> r.Domains.keys],
     IPs     |-> [alloc |-> final.IPs.alloc, keys |-> r.IPs.keys],
     Params  |-> [alloc |-> final.Params.alloc, keys |-> r.Params.keys]]

\* The merge of one partial result into the final one (extractor.go:273-288).
mergeResults(final, r) ==
    [UUIDs   |-> MapPutAll(final.UUIDs, r.UUIDs.keys),
     Emails  |-> MapPutAll(final.Emails, r.Emails.keys),
     Domains |-> MapPutAll(final.Domains, r.Domains.keys),
     IPs     |-> MapPutAll(final.IPs, r.IPs.keys),
     Params  |-> MapPutAll(final.Params, r.Params.keys)]

(***************************************************************************)
(* Package redirect (internal/redirect/redirect.go).  A string is the      *)
(* sequence of its characters.                                             *)
(***************************************************************************)

\* The longest query, in parameters, of the URLs that are scanned.
MaxPairs == 2

Digits == {"0", "1", "2", "3", "4", "5", "6", "7", "8", "9"}

UpperCase == <<"A", "B", "C", "D", "E", "F", "G", "H", "I", "J", "K", "L", "M", "N", "O", "P", "Q", "R", "S", "T", "U", "V", "W", "X", "Y", "Z">>

LowerCase == <<"a", "b", "c", "d", "e", "f", "g", "h", "i", "j", "k", "l", "m", "n", "o", "p", "q", "r", "s", "t", "u", "v", "w", "x", "y", "z">>

\* The lower-case form of a character.
ToLower(c) ==
    IF \E i \in DOMAIN UpperCase : UpperCase[i] = c
    THEN LowerCase[CHOOSE i \in DOMAIN UpperCase : UpperCase[i] = c]
    ELSE c

\* strings.EqualFold
EqualFold(s, t) ==
    /\ Len(s) = Len(t)
    /\ \A i \in DOMAIN s : ToLower(s[i]) = ToLower(t[i])

\* strings.HasPrefix
HasPrefix(s, prefix) ==
    /\ Len(s) >= Len(prefix)
    /\ SubSeq(s, 1, Len(prefix)) = prefix

\* var defaultRedirectParams
defaultRedirectParams ==
    << <<"n", "e", "x", "t">>,
       <<"u", "r", "l">>,
       <<"r", "e", "d", "i", "r", "e", "c", "t">>,
       <<"r", "e", "t", "u", "r", "n">>,
       <<"g", "o", "t", "o">>,
       <<"d", "e", "s", "t">>,
       <<"v", "i", "e", "w">> >>

\* The parameter names a detector may hold: the default ones, or the ones
\* of a configuration file.
RedirectConfigs == { defaultRedirectParams, << <<"r", "a", "n", "d">>, <<"g", "o", "t", "o">> >> }

\* The parameter names met in the queries.
ParamNames == { <<"n", "e", "x", "t">>, <<"N", "e", "x", "t">>, <<"r", "a", "n", "d">> }

\* The parameter values met in the queries.
ParamValues ==
    { <<"h", "t", "t", "p", "s", ":", "/", "/", "e">>, <<"h", "t", "t", "p", ":", "/", "/", "e">>, <<"/", "/", "e">>, <<"/", "/", "e", "v">>,
      <<"1", "2", "3", "4", "5">>, <<"2">>, <<"/", "x", "/", "y">> }

\* A URL is whether url.Parse accepts it and, when it does, the (name,
\* value) pairs of its query, decoded, in the order they are written.
URLs ==
    [ok : {TRUE}, query : UNION {[1..n -> ParamNames \X ParamValues] : n \in 0..MaxPairs}]
    \cup { [ok |-> FALSE, query |-> << << <<"n", "e", "x", "t">>, <<"h", "t", "t", "p", "s", ":", "/", "/", "e">> >> >>] }

NoURL == [ok |-> TRUE, query |-> <<>>]

\* The keys of u.Query().
QueryKeys(u) == {u.query[i][1] : i \in DOMAIN u.query}

\* u.Query()[param]: the values given to param, in the order of the query.
QueryValues(u, param) ==
    LET named(p) == p[1] = param
        ps == SelectSeq(u.query, named)
    IN  [j \in DOMAIN ps |-> ps[j][2]]

\* isURLLike (redirect.go:102-106)
isURLLike(value) ==
    \/ HasPrefix(value, <<"h", "t", "t", "p", ":", "/", "/">>)
    \/ HasPrefix(value, <<"h", "t", "t", "p", "s", ":", "/", "/">>)
    \/ HasPrefix(value, <<"/", "/">>)

\* isNumericOrShort counting a value of four characters as short.
isNumericOrShortLoose(value) ==
    IF Len(value) <= 4 THEN TRUE
    ELSE \A i \in DOMAIN value : value[i] \in Digits

\* isNumericOrShort (redirect.go:109-121)
isNumericOrShort(value) ==
    IF Len(value) < 4 THEN TRUE
    ELSE \A i \in DOMAIN value : value[i] \in Digits

\* The loop over d.redirectParams (redirect.go:163-169).
isKnown(params, param) == \E i \in DOMAIN params : EqualFold(param, params[i])

\* The loop over the values of one parameter (redirect.go:171-182): the
\* matches it appends.
MatchedValues(params, u, param) ==
    LET matched(value) ==
            isURLLike(value) /\ (isKnown(params, param) \/ ~isNumericOrShort(value))
        vs == SelectSeq(QueryValues(u, param), matched)
    IN  [j \in DOMAIN vs |->
            [Name |-> param, Value |-> vs[j], IsKnown |-> isKnown(params, param)]]

\* The orders in which a range over a map with the keys ks may visit them.
RangeOrders(ks) ==
    {o \in [1..Cardinality(ks) -> ks] : \A k \in ks : \E i \in DOMAIN o : o[i] = k}

\* The matches appended by the loop over the query visiting the
\* parameters in the order ord.
RECURSIVE MatchedParams(_, _, _)
MatchedParams(params, u, ord) ==
    IF ord = <<>> THEN <<>>
    ELSE MatchedValues(params, u, Head(ord)) \o MatchedParams(params, u, Tail(ord))

\* The test of DetectRedirectParams with known parameter names only.
DetectsKnownOnly(params, param, value) ==
    isURLLike(value) /\ isKnown(params, param)

\* The test DetectRedirectParams applies to a value of the parameter param
\* (redirect.go:88-93).
Detects(params, param, value) ==
    isURLLike(value) /\ (isKnown(params, param) \/ ~isNumericOrShort(value))

\* The loop of DetectRedirectParams over the query, visiting the parameters
\* in the order ord: true at the first value that passes the test, false
\* when the loop ends.
RECURSIVE DetectLoop(_, _, _)
DetectLoop(params, u, ord) ==
    IF ord = <<>> THEN FALSE
    ELSE LET vs == QueryValues(u, Head(ord))
         IN  IF \E j \in DOMAIN vs : Detects(params, Head(ord), vs[j])
             THEN TRUE
             ELSE DetectLoop(params, u, Tail(ord))

(***************************************************************************)
(* The wordlist package (internal/wordlist).                               *)
(***************************************************************************)

\* The runes at which Tokenize cuts (utils.go:15-17).
Separators == {"-", "_", ".", "/"}

\* strings.FieldsFunc: the runs of runes of s between separators, the empty
\* ones left out; cur is the run being read.
RECURSIVE Fields(_, _)
Fields(s, cur) ==
    IF s = <<>> THEN (IF cur = <<>> THEN <<>> ELSE <<cur>>)
    ELSE IF Head(s) \in Separators
         THEN (IF cur = <<>> THEN <<>> ELSE <<cur>>) \o Fields(Tail(s), <<>>)
         ELSE Fields(Tail(s), Append(cur, Head(s)))

\* wordlist.Tokenize (utils.go:14-18)
Tokenize(input) == Fields(input, <<>>)

\* strings.Split(path, "/"): the pieces between slashes, empty ones kept;
\* cur is the piece being read.
RECURSIVE Split(_, _)
Split(s, cur) ==
    IF s = <<>> THEN <<cur>>
    ELSE IF Head(s) = "/" THEN <<cur>> \o Split(Tail(s), <<>>)
         ELSE Split(Tail(s), Append(cur, Head(s)))

\* The loop over the segments (wordlist.go:37-41): the tokens of every
\* segment that is not empty.
RECURSIVE PathTokens(_)
PathTokens(segments) ==
    IF segments = <<>> THEN <<>>
    ELSE (IF Head(segments) # <<>> THEN Tokenize(Head(segments)) ELSE <<>>)
             \o PathTokens(Tail(segments))

\* The tokens of the values vs in their order (wordlist.go:45-47).
RECURSIVE ValueTokens(_)
ValueTokens(vs) ==
    IF vs = <<>> THEN <<>> ELSE Tokenize(Head(vs)) \o ValueTokens(Tail(vs))

\* The loop over u.Query() visiting the keys in the order ord
\* (wordlist.go:43-48): the tokens of the key, then those of its values.
RECURSIVE QueryTokens(_, _)
QueryTokens(u, ord) ==
    IF ord = <<>> THEN <<>>
    ELSE Tokenize(Head(ord)) \o ValueTokens(QueryValues(u, Head(ord)))
             \o QueryTokens(u, Tail(ord))

\* The paths, query keys and query values of the URLs handed to
\* ExtractTokensFromURL.
TokenPaths ==
    { <<>>,
      <<"/", "a", "-", "b">>,
      <<"/", "c", "/", "a", "-", "b">>,
      <<"/", "a", "_", "b", "/", "/", "c">> }

TokenKeys == { <<"k">>, <<"o", "_", "p">> }

TokenValues == { <<"v">>, <<"w", ".", "x">> }

\* A URL is whether url.Parse accepts it and, when it does, its path and
\* the (key, value) pairs of its query in the order they are written.
TokenURLs ==
    [ok : {TRUE}, path : TokenPaths,
     query : UNION {[1..n -> TokenKeys \X TokenValues] : n \in 0..MaxPairs}]
    \cup { [ok |-> FALSE, path |-> <<>>, query |-> <<>>] }

NoTokenURL == [ok |-> TRUE, path |-> <<>>, query |-> <<>>]

(***************************************************************************)
(* State.                                                                  *)
(***************************************************************************)
VARIABLES
    config,        \* the Config handed to New
    ext,           \* what New returned: "unset", "extractor" or "nil"
    newErr,        \* the error New returned
    ctxDeadline,   \* whether the context has a deadline (context.WithTimeout)
    ctxErr,        \* ctx.Err(): NoErr until the context is cancelled
    reader,        \* the io.Reader handed to Extract
    input,         \* the data chunks the reader delivers before end-of-stream
    exPc,          \* Extract: "idle", "merge" (in its select loop), "returned"
    ret,           \* what Extract returned: [res, err]
    finalResults,  \* the merger's accumulator (after the return: what it held)
    chunks,        \* buffer of the chunks channel
    chunksClosed,
    results,       \* buffer of the results channel
    resultsClosed,
    errors,        \* buffer of the errors channel
    errorsClosed,
    wpc,           \* per worker: "none", "recv", "select", "process", "send", "done"
    wchunk,        \* per worker: the chunk it received
    wres,          \* per worker: the partial result it is sending
    rpc,           \* reader: "none", "select", "read", "send", "done"
    rchunk,        \* the chunk the reader is about to send, and whether it returns after it
    cpc,           \* closer: "none", "wait", "closeErrors", "done"
    hasRead,       \* history: a Read call on the reader has returned
    pos,           \* number of data chunks of input that Read has delivered
    rstatus,       \* history: "open", or how reading ended: "eof", "err"
    ctxAtCall,     \* history: ctx.Err() when Extract was called
    cancelledReading, \* history: the context was cancelled while Extract was
                      \* running and no Read had yet ended the stream
    pushed,           \* history: the chunks the reader has sent on chunks
    accepted,         \* history: the errors the errors channel has taken
    merged,           \* history: the number of partial results Extract has merged
    redirectParams,   \* d.redirectParams of the RedirectDetector
    urlStr,           \* the URL handed to ScanURL
    scanResult,        \* the RedirectResult returned by ScanURL, <<>> before the call
    detectResult,     \* what DetectRedirectParams returned: <<>> before the call
    tokenURL,         \* the URL handed to ExtractTokensFromURL
    tokenResult       \* what ExtractTokensFromURL returned: <<>> before the call

redirectVars == <<redirectParams, urlStr, scanResult, detectResult>>

wordlistVars == <<tokenURL, tokenResult>>

vars == <<config, ext, newErr, ctxDeadline, ctxErr, reader, input, exPc, ret, finalResults, merged,
          chunks, chunksClosed, results, resultsClosed, errors, errorsClosed,
          wpc, wchunk, wres, rpc, rchunk, cpc, hasRead, pos, rstatus, pushed, accepted, ctxAtCall,
          cancelledReading, redirectVars, wordlistVars>>

pipeVars == <<chunks, chunksClosed, results, resultsClosed, errors, errorsClosed,
              wpc, wchunk, wres, rpc, rchunk, cpc, hasRead, pos, rstatus, pushed, accepted>>

\* type chunk struct { data string; err error }
Chunk(data, err) == [data |-> data, err |-> err]

NoChunk == Chunk(<<>>, NoErr)

PlainReader == [kind |-> "plain", size |-> 0, statErr |-> FALSE]

\* The readers offered to Extract: nil, a reader that is not a file, and
\* files around the size limit, whose Stat may fail.
Readers ==
    { [kind |-> "nil", size |-> 0, statErr |-> FALSE], PlainReader }
    \cup [kind : {"file"},
          size : {0, maxFileSize - 1, maxFileSize, maxFileSize + 1},
          statErr : BOOLEAN]

\* What one Read call may return: whether it delivers bytes (n > 0) and
\* the error.
ReadOutcomes == [some : BOOLEAN, err : {NoErr, EOF, ErrRead}]

\* The state before New is called, for a caller holding the configuration
\* cfg, the reader rd, a stream that delivers the chunks inp, and a context
\* with a deadline (dl) or without.
InitExtract(cfg, rd, inp, dl) ==
    /\ config = cfg
    /\ ctxDeadline = dl
    /\ reader = rd
    /\ input = inp
    /\ ext = "unset"
    /\ newErr = NilError
    /\ ctxErr = NoErr
    /\ exPc = "idle"
    /\ ret = [res |-> newResults(config), err |-> NilError]
    /\ finalResults = newResults(config)
    /\ chunks = <<>>
    /\ chunksClosed = FALSE
    /\ results = <<>>
    /\ resultsClosed = FALSE
    /\ errors = <<>>
    /\ errorsClosed = FALSE
    /\ wpc = [w \in Workers |-> "none"]
    /\ wchunk = [w \in Workers |-> NoChunk]
    /\ wres = [w \in Workers |-> newResults(config)]
    /\ rpc = "none"
    /\ rchunk = [c |-> NoChunk, last |-> FALSE]
    /\ cpc = "none"
    /\ hasRead = FALSE
    /\ pos = 0
    /\ rstatus = "open"
    /\ ctxAtCall = NoErr
    /\ cancelledReading = FALSE
    /\ pushed = <<>>
    /\ accepted = <<>>
    /\ merged = 0

\* A detector with the parameter names ps and a caller about to scan u.
InitRedirect(ps, u) ==
    /\ redirectParams = ps
    /\ urlStr = u
    /\ scanResult = <<>>
    /\ detectResult = <<>>

\* A caller about to take the tokens of the URL u.
InitWordlist(u) ==
    /\ tokenURL = u
    /\ tokenResult = <<>>

InitWith(cfg, rd, inp, dl) ==
    /\ InitExtract(cfg, rd, inp, dl)
    /\ InitRedirect(defaultRedirectParams, NoURL)
    /\ InitWordlist(NoTokenURL)

\* The pipeline in depth: a reader that passes the checks, every input.
Init ==
    \E cfg \in PipeConfigs, inp \in Inputs : InitWith(cfg, PlainReader, inp, TRUE)

\* The pipeline under a context that has no deadline and is never done.
InitBackground ==
    \E cfg \in PipeConfigs, inp \in Inputs : InitWith(cfg, PlainReader, inp, FALSE)

\* The pipeline under the configuration and the context of
\* TestContextCancellation, for the properties of scheduling.
InitSched ==
    \E inp \in Inputs : InitWith(EmailsOnly, PlainReader, inp, FALSE)

\* The calls in breadth: every configuration and reader, the shortest
\* inputs; an empty file delivers nothing and the other files one chunk.
InitCall ==
    \E cfg \in Configs, rd \in Readers, inp \in Inputs :
        /\ Len(inp) <= 1
        /\ rd.kind = "file" => inp = (IF rd.size = 0 THEN <<>> ELSE <<DataAt(1)>>)
        /\ InitWith(cfg, rd, inp, TRUE)

(***************************************************************************)
(* The caller: New, cancellation of the context, the call of Extract.      *)
(***************************************************************************)

\* extractor.New (extractor.go:88-95)
New ==
    /\ ext = "unset"
    /\ IF ValidConfig(config)
       THEN ext' = "extractor" /\ newErr' = NilError
       ELSE ext' = "nil" /\ newErr' = ExtractorError("New", ErrInvalidVersion)
    /\ UNCHANGED <<config, ctxDeadline, ctxErr, reader, input, exPc, ret,
                   finalResults, merged, pipeVars, ctxAtCall, cancelledReading, redirectVars, wordlistVars>>

\* The caller's cancel function is called, or the deadline of the context
\* expires.  ctx.Err() is nil before and never changes afterwards.
Cancel ==
    /\ ctxErr = NoErr
    /\ ctxErr' \in {Canceled} \cup (IF ctxDeadline THEN {DeadlineExceeded} ELSE {})
    /\ cancelledReading' = (exPc = "merge" /\ rstatus = "open")
    /\ UNCHANGED <<config, ext, newErr, ctxDeadline, reader, input, exPc, ret,
                   finalResults, merged, pipeVars, ctxAtCall, redirectVars, wordlistVars>>

\* Precheck testing the reader before the context.
PrecheckReaderFirst(ctx, rd) ==
    IF rd.kind = "nil" THEN ErrNilReader
    ELSE IF ctx # NoErr THEN ctx
    ELSE IF rd.kind = "file" /\ rd.statErr THEN ErrFileInfo
    ELSE IF rd.kind = "file" /\ rd.size > maxFileSize THEN ErrTooLarge
    ELSE NoErr

\* Precheck without the test of the context.
PrecheckNoCtx(ctx, rd) ==
    IF rd.kind = "nil" THEN ErrNilReader
    ELSE IF rd.kind = "file" /\ rd.statErr THEN ErrFileInfo
    ELSE IF rd.kind = "file" /\ rd.size > maxFileSize THEN ErrTooLarge
    ELSE NoErr

\* Precheck refusing a file of exactly maxFileSize bytes.
PrecheckInclusive(ctx, rd) ==
    IF ctx # NoErr THEN ctx
    ELSE IF rd.kind = "nil" THEN ErrNilReader
    ELSE IF rd.kind = "file" /\ rd.statErr THEN ErrFileInfo
    ELSE IF rd.kind = "file" /\ rd.size >= maxFileSize THEN ErrTooLarge
    ELSE NoErr

\* The outcome of the precondition checks of Extract (extractor.go:175-193),
\* NoErr when they all pass.
Precheck(ctx, rd) ==
    IF ctx # NoErr THEN ctx
    ELSE IF rd.kind = "nil" THEN ErrNilReader
    ELSE IF rd.kind = "file" /\ rd.statErr THEN ErrFileInfo
    ELSE IF rd.kind = "file" /\ rd.size > maxFileSize THEN ErrTooLarge
    ELSE NoErr

\* ExtractCall keeping state of the call in the extractor: it rewrites e.config.
ExtractCallShared ==
    /\ ext = "extractor"
    /\ exPc = "idle"
    /\ ctxAtCall' = ctxErr
    /\ IF Precheck(ctxErr, reader) # NoErr
       THEN /\ exPc' = "returned"
            /\ ret' = [res |-> newResults(config),
                       err |-> ExtractorError("Extract", Precheck(ctxErr, reader))]
            /\ UNCHANGED <<finalResults, merged, pipeVars>>
       ELSE /\ exPc' = "merge"
            /\ wpc' = [w \in Workers |-> "recv"]
            /\ rpc' = "select"
            /\ cpc' = "wait"
            /\ finalResults' = newResults(config)
            /\ UNCHANGED merged
            /\ UNCHANGED <<ret, chunks, chunksClosed, results, resultsClosed,
                           errors, errorsClosed, wchunk, wres, rchunk, hasRead,
                           pos, rstatus, pushed, accepted>>
    /\ config' = [config EXCEPT !.ExtractEmails = ~@]
    /\ UNCHANGED <<ext, newErr, ctxDeadline, ctxErr, reader, input, cancelledReading, redirectVars, wordlistVars>>

\* Extract is called on the extractor New returned (extractor.go:174-260):
\* either a precondition fails and Extract returns at once, or the channels
\* are made, the workers, the reader and the closer are started and Extract
\* enters its select loop.
ExtractCall ==
    /\ ext = "extractor"
    /\ exPc = "idle"
    /\ ctxAtCall' = ctxErr
    /\ IF Precheck(ctxErr, reader) # NoErr
       THEN /\ exPc' = "returned"
            /\ ret' = [res |-> newResults(config),
                       err |-> ExtractorError("Extract", Precheck(ctxErr, reader))]
            /\ UNCHANGED <<finalResults, merged, pipeVars>>
       ELSE /\ exPc' = "merge"
            /\ wpc' = [w \in Workers |-> "recv"]
            /\ rpc' = "select"
            /\ cpc' = "wait"
            /\ finalResults' = newResults(config)
            /\ UNCHANGED merged
            /\ UNCHANGED <<ret, chunks, chunksClosed, results, resultsClosed,
                           errors, errorsClosed, wchunk, wres, rchunk, hasRead,
                           pos, rstatus, pushed, accepted>>
    /\ UNCHANGED <<config, ext, newErr, ctxDeadline, ctxErr, reader, input, cancelledReading, redirectVars, wordlistVars>>

callerVars == <<config, ext, newErr, ctxDeadline, ctxErr, reader, input, exPc,
                ret, finalResults, merged, ctxAtCall, cancelledReading, redirectVars, wordlistVars>>

(***************************************************************************)
(* The worker goroutines (extractor.go:202-226).                           *)
(***************************************************************************)

\* Publish keeping the latest error: a pending error is replaced.
PublishLatest(errs, err) == <<err>>

\* select { case errors <- err: default: }  : the error is buffered when
\* the channel has room and dropped otherwise.
Publish(errs, err) == IF Len(errs) < errorsCap THEN Append(errs, err) ELSE errs

\* History of the errors channel: acc with err added when the send of err
\* on a channel holding errs is taken.
Accept(errs, acc, err) == IF Publish(errs, err) # errs THEN Append(acc, err) ELSE acc

\* for c := range chunks : take the next chunk, or leave the loop (and run
\* the deferred wg.Done) when the channel is closed and drained.
WorkerRecv(w) ==
    /\ wpc[w] = "recv"
    /\ \/ /\ chunks # <<>>
          /\ wchunk' = [wchunk EXCEPT ![w] = Head(chunks)]
          /\ chunks' = Tail(chunks)
          /\ wpc' = [wpc EXCEPT ![w] = "select"]
       \/ /\ chunks = <<>>
          /\ chunksClosed
          /\ wpc' = [wpc EXCEPT ![w] = "done"]
          /\ UNCHANGED <<chunks, wchunk>>
    /\ UNCHANGED <<callerVars, pushed, accepted, chunksClosed, results, resultsClosed, errors,
                   errorsClosed, wres, rpc, rchunk, cpc, hasRead, pos, rstatus>>

\* The select on ctx.Done() with its default branch: on a done context the
\* worker publishes ctx.Err() and returns; on a chunk carrying an error it
\* publishes that error and returns; otherwise it goes on to process.
WorkerSelect(w) ==
    /\ wpc[w] = "select"
    /\ IF ctxErr # NoErr
       THEN /\ errors' = Publish(errors, ctxErr)
            /\ accepted' = Accept(errors, accepted, ctxErr)
            /\ wpc' = [wpc EXCEPT ![w] = "done"]
            /\ wchunk' = [wchunk EXCEPT ![w] = NoChunk]
       ELSE IF wchunk[w].err # NoErr
       THEN /\ errors' = Publish(errors, wchunk[w].err)
            /\ accepted' = Accept(errors, accepted, wchunk[w].err)
            /\ wpc' = [wpc EXCEPT ![w] = "done"]
            /\ wchunk' = [wchunk EXCEPT ![w] = NoChunk]
       ELSE /\ wpc' = [wpc EXCEPT ![w] = "process"]
            /\ UNCHANGED <<errors, accepted, wchunk>>
    /\ UNCHANGED <<callerVars, pushed, chunks, chunksClosed, results, resultsClosed,
                   errorsClosed, wres, rpc, rchunk, cpc, hasRead, pos, rstatus>>

\* WorkerProcess on one Results kept by the worker for all its chunks: the
\* maps of the partial result it sent last, still waiting in results, are
\* the ones it writes to.
WorkerProcessReuse(w) ==
    /\ wpc[w] = "process"
    /\ wres' = [wres EXCEPT ![w] = processChunk(config, ctxErr, wchunk[w].data)]
    /\ results' = IF results = <<>> THEN results
                  ELSE [results EXCEPT ![Len(results)] =
                           mergeResults(@, processChunk(config, ctxErr, wchunk[w].data))]
    /\ wchunk' = [wchunk EXCEPT ![w] = NoChunk]
    /\ wpc' = [wpc EXCEPT ![w] = "send"]
    /\ UNCHANGED <<callerVars, pushed, accepted, chunks, chunksClosed, resultsClosed,
                   errors, errorsClosed, rpc, rchunk, cpc, hasRead, pos, rstatus>>

\* e.processChunk(ctx, c.data), the operand of the send on results.
WorkerProcess(w) ==
    /\ wpc[w] = "process"
    /\ wres' = [wres EXCEPT ![w] = processChunk(config, ctxErr, wchunk[w].data)]
    /\ wchunk' = [wchunk EXCEPT ![w] = NoChunk]
    /\ wpc' = [wpc EXCEPT ![w] = "send"]
    /\ UNCHANGED <<callerVars, pushed, accepted, chunks, chunksClosed, results, resultsClosed,
                   errors, errorsClosed, rpc, rchunk, cpc, hasRead, pos, rstatus>>

\* WorkerSend as a send that gives up on a full buffer: the partial result
\* is dropped.
WorkerSendDrop(w) ==
    /\ wpc[w] = "send"
    /\ results' = IF Len(results) < maxGoroutines THEN Append(results, wres[w])
                  ELSE results
    /\ wres' = [wres EXCEPT ![w] = newResults(config)]
    /\ wpc' = [wpc EXCEPT ![w] = "recv"]
    /\ UNCHANGED <<callerVars, pushed, accepted, chunks, chunksClosed, resultsClosed, errors,
                   errorsClosed, wchunk, rpc, rchunk, cpc, hasRead, pos, rstatus>>

\* results <- ... : a plain send, which waits for room in the buffer.
WorkerSend(w) ==
    /\ wpc[w] = "send"
    /\ Len(results) < maxGoroutines
    /\ results' = Append(results, wres[w])
    /\ wres' = [wres EXCEPT ![w] = newResults(config)]
    /\ wpc' = [wpc EXCEPT ![w] = "recv"]
    /\ UNCHANGED <<callerVars, pushed, accepted, chunks, chunksClosed, resultsClosed, errors,
                   errorsClosed, wchunk, rpc, rchunk, cpc, hasRead, pos, rstatus>>

Worker(w) == WorkerRecv(w) \/ WorkerSelect(w) \/ WorkerProcess(w) \/ WorkerSend(w)

(***************************************************************************)
(* The chunk reader goroutine (extractor.go:229-251).                      *)
(***************************************************************************)

\* ReaderSelect without the case on ctx.Done(): every iteration reads.
ReaderSelectNoCtx ==
    /\ rpc = "select"
    /\ rpc' = "read"
    /\ UNCHANGED rchunk
    /\ UNCHANGED <<callerVars, pushed, accepted, chunks, chunksClosed, results, resultsClosed,
                   errors, errorsClosed, wpc, wchunk, wres, cpc, hasRead, pos, rstatus>>

\* The select on ctx.Done() at the top of the loop.
ReaderSelect ==
    /\ rpc = "select"
    /\ IF ctxErr # NoErr
       THEN /\ rchunk' = [c |-> Chunk(<<>>, ctxErr), last |-> TRUE]
            /\ rpc' = "send"
       ELSE /\ rpc' = "read"
            /\ UNCHANGED rchunk
    /\ UNCHANGED <<callerVars, pushed, accepted, chunks, chunksClosed, results, resultsClosed,
                   errors, errorsClosed, wpc, wchunk, wres, cpc, hasRead, pos, rstatus>>

\* The outcomes the stream allows for the next Read call: the next chunk
\* of input (with io.EOF only if it is the last one), no byte (with io.EOF
\* only after the last chunk, and at any time without error), and at any
\* time an error other than io.EOF.
ReadAllowed(out) ==
    \/ out.err = ErrRead
    \/ out.some /\ pos < Len(input) /\ (out.err = EOF => pos + 1 = Len(input))
    \/ ~out.some /\ out.err = EOF /\ pos = Len(input)
    \/ ~out.some /\ out.err = NoErr

\* ReaderRead returning at io.EOF without closing chunks.
ReaderReadNoClose(out) ==
    /\ rpc = "read"
    /\ ReadAllowed(out)
    /\ hasRead' = TRUE
    /\ pos' = IF out.some /\ out.err # ErrRead THEN pos + 1 ELSE pos
    /\ rstatus' = IF out.err = NoErr THEN rstatus
                  ELSE IF out.err = EOF THEN "eof" ELSE "err"
    /\ IF out.err # NoErr /\ out.err # EOF
       THEN /\ rchunk' = [c |-> Chunk(<<>>, out.err), last |-> TRUE]
            /\ rpc' = "send"
            /\ UNCHANGED chunksClosed
       ELSE IF out.some
       THEN /\ rchunk' = [c |-> Chunk(input[pos + 1], NoErr), last |-> out.err = EOF]
            /\ rpc' = "send"
            /\ UNCHANGED chunksClosed
       ELSE IF out.err = EOF
       THEN /\ rpc' = "done"
            /\ UNCHANGED <<rchunk, chunksClosed>>
       ELSE /\ rpc' = "select"
            /\ UNCHANGED <<rchunk, chunksClosed>>
    /\ UNCHANGED <<callerVars, pushed, accepted, chunks, results, resultsClosed, errors,
                   errorsClosed, wpc, wchunk, wres, cpc>>

\* ReaderRead without the test n > 0: a chunk is sent after every Read.
ReaderReadEmptyChunk(out) ==
    /\ rpc = "read"
    /\ ReadAllowed(out)
    /\ hasRead' = TRUE
    /\ pos' = IF out.some /\ out.err # ErrRead THEN pos + 1 ELSE pos
    /\ rstatus' = IF out.err = NoErr THEN rstatus
                  ELSE IF out.err = EOF THEN "eof" ELSE "err"
    /\ IF out.err # NoErr /\ out.err # EOF
       THEN /\ rchunk' = [c |-> Chunk(<<>>, out.err), last |-> TRUE]
            /\ rpc' = "send"
            /\ UNCHANGED chunksClosed
       ELSE IF out.some
       THEN /\ rchunk' = [c |-> Chunk(input[pos + 1], NoErr), last |-> out.err = EOF]
            /\ rpc' = "send"
            /\ UNCHANGED chunksClosed
       ELSE IF out.err = EOF
       THEN /\ rpc' = "done"
            /\ chunksClosed' = TRUE
            /\ UNCHANGED rchunk
       ELSE /\ rchunk' = [c |-> Chunk(<<>>, NoErr), last |-> FALSE]
            /\ rpc' = "send"
            /\ UNCHANGED chunksClosed
    /\ UNCHANGED <<callerVars, pushed, accepted, chunks, results, resultsClosed, errors,
                   errorsClosed, wpc, wchunk, wres, cpc>>

\* n, err := reader.Read(buffer) returns out, and the branches that follow:
\* an error other than io.EOF becomes an error chunk, n > 0 becomes a data
\* chunk, io.EOF with n = 0 ends the goroutine (the deferred close runs).
ReaderRead(out) ==
    /\ rpc = "read"
    /\ ReadAllowed(out)
    /\ hasRead' = TRUE
    /\ pos' = IF out.some /\ out.err # ErrRead THEN pos + 1 ELSE pos
    /\ rstatus' = IF out.err = NoErr THEN rstatus
                  ELSE IF out.err = EOF THEN "eof" ELSE "err"
    /\ IF out.err # NoErr /\ out.err # EOF
       THEN /\ rchunk' = [c |-> Chunk(<<>>, out.err), last |-> TRUE]
            /\ rpc' = "send"
            /\ UNCHANGED chunksClosed
       ELSE IF out.some
       THEN /\ rchunk' = [c |-> Chunk(input[pos + 1], NoErr), last |-> out.err = EOF]
            /\ rpc' = "send"
            /\ UNCHANGED chunksClosed
       ELSE IF out.err = EOF
       THEN /\ rpc' = "done"
            /\ chunksClosed' = TRUE
            /\ UNCHANGED rchunk
       ELSE /\ rpc' = "select"
            /\ UNCHANGED <<rchunk, chunksClosed>>
    /\ UNCHANGED <<callerVars, pushed, accepted, chunks, results, resultsClosed, errors,
                   errorsClosed, wpc, wchunk, wres, cpc>>

\* ReaderSend on a chunks channel without a capacity: the send never waits.
ReaderSendUnbounded ==
    /\ rpc = "send"
    /\ chunks' = Append(chunks, rchunk.c)
    /\ pushed' = Append(pushed, rchunk.c)
    /\ rchunk' = [c |-> NoChunk, last |-> FALSE]
    /\ IF rchunk.last
       THEN rpc' = "done" /\ chunksClosed' = TRUE
       ELSE rpc' = "select" /\ UNCHANGED chunksClosed
    /\ UNCHANGED <<callerVars, accepted, results, resultsClosed, errors, errorsClosed,
                   wpc, wchunk, wres, cpc, hasRead, pos, rstatus>>

\* chunks <- chunk{...} : a plain send, which waits for room in the buffer;
\* after an error chunk or the chunk read together with io.EOF the
\* goroutine returns and the deferred close(chunks) runs.
ReaderSend ==
    /\ rpc = "send"
    /\ Len(chunks) < maxGoroutines
    /\ chunks' = Append(chunks, rchunk.c)
    /\ pushed' = Append(pushed, rchunk.c)
    /\ rchunk' = [c |-> NoChunk, last |-> FALSE]
    /\ IF rchunk.last
       THEN rpc' = "done" /\ chunksClosed' = TRUE
       ELSE rpc' = "select" /\ UNCHANGED chunksClosed
    /\ UNCHANGED <<callerVars, accepted, results, resultsClosed, errors, errorsClosed,
                   wpc, wchunk, wres, cpc, hasRead, pos, rstatus>>

Reader == ReaderSelect \/ (\E out \in ReadOutcomes : ReaderRead(out)) \/ ReaderSend

(***************************************************************************)
(* The goroutine that closes results and errors (extractor.go:254-258).    *)
(***************************************************************************)

\* CloserCloseResults without wg.Wait(): results is closed while workers
\* may still be running.
CloserCloseResultsNoWait ==
    /\ cpc = "wait"
    /\ resultsClosed' = TRUE
    /\ cpc' = "closeErrors"
    /\ UNCHANGED <<callerVars, pushed, accepted, chunks, chunksClosed, results, errors,
                   errorsClosed, wpc, wchunk, wres, rpc, rchunk, hasRead, pos, rstatus>>

\* wg.Wait() returns once every worker has run wg.Done; close(results).
CloserCloseResults ==
    /\ cpc = "wait"
    /\ \A w \in Workers : wpc[w] = "done"
    /\ resultsClosed' = TRUE
    /\ cpc' = "closeErrors"
    /\ UNCHANGED <<callerVars, pushed, accepted, chunks, chunksClosed, results, errors,
                   errorsClosed, wpc, wchunk, wres, rpc, rchunk, hasRead, pos, rstatus>>

\* close(errors)
CloserCloseErrors ==
    /\ cpc = "closeErrors"
    /\ errorsClosed' = TRUE
    /\ cpc' = "done"
    /\ UNCHANGED <<callerVars, pushed, accepted, chunks, chunksClosed, results, resultsClosed,
                   errors, wpc, wchunk, wres, rpc, rchunk, hasRead, pos, rstatus>>

Closer == CloserCloseResults \/ CloserCloseErrors

(***************************************************************************)
(* The select loop of Extract (extractor.go:263-292).  Each action is one  *)
(* case of the select that is ready; Go picks any ready case.              *)
(***************************************************************************)

\* MergerRecvError returning the accumulator together with the error.
MergerRecvErrorPartial ==
    /\ exPc = "merge"
    /\ errors # <<>>
    /\ errors' = Tail(errors)
    /\ exPc' = "returned"
    /\ ret' = [res |-> finalResults,
               err |-> ExtractorError("Extract", Head(errors))]
    /\ UNCHANGED <<config, ext, newErr, ctxDeadline, ctxErr, reader, input,
                   finalResults, merged, ctxAtCall, cancelledReading, chunks,
                   chunksClosed, results, resultsClosed, errorsClosed, wpc,
                   wchunk, wres, rpc, rchunk, cpc, hasRead, pos, rstatus, pushed, accepted, redirectVars, wordlistVars>>

\* case err := <-errors, with a buffered error: it is non-nil, Extract returns it.
MergerRecvError ==
    /\ exPc = "merge"
    /\ errors # <<>>
    /\ errors' = Tail(errors)
    /\ exPc' = "returned"
    /\ ret' = [res |-> newResults(config),
               err |-> ExtractorError("Extract", Head(errors))]
    /\ UNCHANGED <<config, ext, newErr, ctxDeadline, ctxErr, reader, input,
                   finalResults, merged, ctxAtCall, cancelledReading, chunks,
                   chunksClosed, results, resultsClosed, errorsClosed, wpc,
                   wchunk, wres, rpc, rchunk, cpc, hasRead, pos, rstatus, pushed, accepted, redirectVars, wordlistVars>>

\* case err := <-errors, on the closed and drained channel: err is nil and
\* the loop goes round again.
MergerErrorsClosed ==
    /\ exPc = "merge"
    /\ errors = <<>>
    /\ errorsClosed
    /\ UNCHANGED vars

\* case r, ok := <-results with ok: the partial result is merged.
MergerRecvResult ==
    /\ exPc = "merge"
    /\ results # <<>>
    /\ finalResults' = mergeResults(finalResults, Head(results))
    /\ results' = Tail(results)
    /\ merged' = merged + 1
    /\ UNCHANGED <<config, ext, newErr, ctxDeadline, ctxErr, reader, input, exPc, ret,
                   ctxAtCall, cancelledReading, chunks, chunksClosed,
                   resultsClosed, errors, errorsClosed, wpc, wchunk, wres, rpc,
                   rchunk, cpc, hasRead, pos, rstatus, pushed, accepted, redirectVars, wordlistVars>>

\* case r, ok := <-results with !ok: Extract returns finalResults, nil.
MergerResultsClosed ==
    /\ exPc = "merge"
    /\ results = <<>>
    /\ resultsClosed
    /\ exPc' = "returned"
    /\ ret' = [res |-> finalResults, err |-> NilError]
    /\ UNCHANGED <<config, ext, newErr, ctxDeadline, ctxErr, reader, input,
                   finalResults, merged, ctxAtCall, cancelledReading, pipeVars, redirectVars, wordlistVars>>

\* A select loop without the case on ctx.Done().
MergerNoCtxCase == FALSE /\ UNCHANGED vars

\* case <-ctx.Done(): Extract returns ctx.Err().
MergerCtxDone ==
    /\ exPc = "merge"
    /\ ctxErr # NoErr
    /\ exPc' = "returned"
    /\ ret' = [res |-> newResults(config),
               err |-> ExtractorError("Extract", ctxErr)]
    /\ UNCHANGED <<config, ext, newErr, ctxDeadline, ctxErr, reader, input,
                   finalResults, merged, ctxAtCall, cancelledReading, pipeVars, redirectVars, wordlistVars>>

Merger ==
    \/ MergerRecvError
    \/ MergerErrorsClosed
    \/ MergerRecvResult
    \/ MergerResultsClosed
    \/ MergerCtxDone

Next ==
    \/ New
    \/ Cancel
    \/ ExtractCall
    \/ \E w \in Workers : Worker(w)
    \/ Reader
    \/ Closer
    \/ Merger

\* The steps under a context that is never done (context.Background(),
\* whose Done channel is nil): no cancellation, and the case on ctx.Done()
\* of the select of Extract is never ready.
NextBackground ==
    \/ New
    \/ ExtractCall
    \/ \E w \in Workers : Worker(w)
    \/ Reader
    \/ Closer
    \/ MergerRecvError
    \/ MergerErrorsClosed
    \/ MergerRecvResult
    \/ MergerResultsClosed

Spec == Init /\ [][Next]_vars

SpecCall == InitCall /\ [][Next]_vars

\* The goroutine of the caller: New, then Extract up to its return.
Caller == New \/ ExtractCall \/ Merger

\* A Read call that returns a byte, io.EOF or an error.
ReaderProgress ==
    \E out \in ReadOutcomes : (out.some \/ out.err # NoErr) /\ ReaderRead(out)

\* Extract under a context that is never done.  Go schedules every
\* goroutine that can run and every Read call returns: weak fairness of
\* each goroutine.  The stream ends after finitely many Read calls: strong
\* fairness of the Read calls that do not return (0, nil).
FairSpec ==
    /\ InitBackground /\ [][NextBackground]_vars
    /\ WF_vars(Caller)
    /\ WF_vars(Reader)
    /\ SF_vars(ReaderProgress)
    /\ \A w \in Workers : WF_vars(Worker(w))
    /\ WF_vars(Closer)

\* The reader in depth: streams of at most two reads, under a context that
\* may be cancelled at any time.
InitShort ==
    \E inp \in Inputs : Len(inp) <= 2 /\ InitWith(EmailsOnly, PlainReader, inp, FALSE)

SpecShort == InitShort /\ [][Next]_vars

\* Extract under a context that may be cancelled at any time.  Only the
\* goroutine that runs Extract is sure to be scheduled: a Read call may
\* never return and the other goroutines may stay where they are.
FairMergerSpec == InitSched /\ [][Next]_vars /\ WF_vars(Merger)

(***************************************************************************)
(* The command-line tool (cmd/urlsluice/main.go), in pattern extraction    *)
(* mode (-wordlist not given).                                             *)
(***************************************************************************)

\* The sizes of the files named by -file: around the documented limit.
FileSizes == {0, maxFileSize - 1, maxFileSize, maxFileSize + 1}

\* The file on disk before run has read it; os.ReadFile may fail on it.
DiskFile(sz, bad) == [kind |-> "disk", size |-> sz, statErr |-> bad]

\* bytes.NewReader(data): a reader over the len(data) bytes held in memory,
\* which is not an *os.File.
BytesReader(sz) == [kind |-> "plain", size |-> sz, statErr |-> FALSE]

\* What Read returns on a bytes.Reader: bytes and nil, or no byte and io.EOF.
BytesReadOutcomes == {[some |-> TRUE, err |-> NoErr], [some |-> FALSE, err |-> EOF]}

\* main calls run with context.Background(); the flags give any
\* configuration and any file.
InitRun ==
    \E cfg \in Configs, sz \in FileSizes, bad \in BOOLEAN :
        InitWith(cfg, DiskFile(sz, bad), IF sz = 0 THEN <<>> ELSE <<DataAt(1)>>, FALSE)

\* data, err := os.ReadFile(config.FilePath): on an error run returns it,
\* otherwise the reader of the whole content is what Extract will be given.
RunReadFile ==
    /\ reader.kind = "disk"
    /\ reader' = IF reader.statErr
                 THEN [reader EXCEPT !.kind = "unreadable"]
                 ELSE BytesReader(reader.size)
    /\ UNCHANGED <<config, ext, newErr, ctxDeadline, ctxErr, input, exPc, ret,
                   finalResults, merged, pipeVars, ctxAtCall, cancelledReading, redirectVars, wordlistVars>>

\* ext, err := extractor.New(...), after the file was read.
RunNew == reader.kind = "plain" /\ New

\* ext.Extract(ctx, bytes.NewReader(data)) with the context run was given.
RunExtract == reader.kind = "plain" /\ ExtractCall

\* The chunk reader on a bytes.Reader.
RunReader ==
    ReaderSelect \/ (\E out \in BytesReadOutcomes : ReaderRead(out)) \/ ReaderSend

\* The steps of run.  The context is never done and a bytes.Reader returns
\* no error but io.EOF, so that no error is ever published: the cases of
\* the select of Extract on a received error and on ctx.Done() are never
\* ready.
NextRun ==
    \/ RunReadFile
    \/ RunNew
    \/ RunExtract
    \/ \E w \in Workers : Worker(w)
    \/ RunReader
    \/ Closer
    \/ MergerErrorsClosed
    \/ MergerRecvResult
    \/ MergerResultsClosed

SpecRun == InitRun /\ [][NextRun]_vars

(***************************************************************************)
(* Extract on a stream held in memory, under a context the caller may      *)
(* cancel (TestContextCancellation).                                       *)
(***************************************************************************)

\* The stream of TestContextCancellation, strings.Repeat of an email line:
\* enough chunks to fill the chunks channel after every worker took one.
RepeatInput == [i \in 1..(2 * maxGoroutines) |-> <<LineEmail>>]

InitCancel == InitWith(EmailsOnly, PlainReader, RepeatInput, FALSE)

\* The steps of Extract on a strings.Reader, whose Read returns what a
\* bytes.Reader returns; no error but the one of the context is published.
NextCancel ==
    \/ New
    \/ Cancel
    \/ ExtractCall
    \/ \E w \in Workers : Worker(w)
    \/ RunReader
    \/ Closer
    \/ Merger

SpecCancel == InitCancel /\ [][NextCancel]_vars

\* A stream of more chunks than the channels, the workers and the reader can
\* hold together.
StreamInput == [i \in 1..(2 * maxGoroutines + 2) |-> <<LineEmail>>]

InitStream == InitWith(EmailsOnly, PlainReader, StreamInput, FALSE)

SpecStream == InitStream /\ [][NextCancel]_vars

(***************************************************************************)
(* ScanURL (redirect.go:148-186).                                          *)
(***************************************************************************)

\* d.ScanURL(urlStr): an empty result when url.Parse fails, otherwise the
\* matches of the loop over u.Query(), which visits the parameters in any
\* order.
ScanURL ==
    /\ scanResult = <<>>
    /\ \E ord \in RangeOrders(QueryKeys(urlStr)) :
          LET mp == IF urlStr.ok THEN MatchedParams(redirectParams, urlStr, ord)
                    ELSE <<>>
          IN  scanResult' = << [URL |-> urlStr,
                                IsVulnerable |-> mp # <<>>,
                                MatchedParams |-> mp] >>
    /\ UNCHANGED <<config, ext, newErr, ctxDeadline, ctxErr, reader, input, exPc,
                   ret, finalResults, merged, pipeVars, ctxAtCall, cancelledReading,
                   redirectParams, urlStr, detectResult, wordlistVars>>

\* d.DetectRedirectParams(urlStr): false when url.Parse fails, otherwise
\* what the loop over u.Query() returns.
DetectRedirectParams ==
    /\ detectResult = <<>>
    /\ \E ord \in RangeOrders(QueryKeys(urlStr)) :
          detectResult' = << urlStr.ok /\ DetectLoop(redirectParams, urlStr, ord) >>
    /\ UNCHANGED <<config, ext, newErr, ctxDeadline, ctxErr, reader, input, exPc,
                   ret, finalResults, merged, pipeVars, ctxAtCall, cancelledReading,
                   redirectParams, urlStr, scanResult, wordlistVars>>

\* A detector of any configuration scans any URL.
InitScan ==
    \E ps \in RedirectConfigs, u \in URLs :
        /\ InitExtract(EmailsOnly, PlainReader, <<>>, FALSE)
        /\ InitRedirect(ps, u)
        /\ InitWordlist(NoTokenURL)

NextScan == ScanURL \/ DetectRedirectParams

SpecScan == InitScan /\ [][NextScan]_vars

(***************************************************************************)
(* ExtractTokensFromURL (wordlist.go:30-50).                               *)
(***************************************************************************)

\* wordlist.ExtractTokensFromURL(urlStr): no tokens and the error when
\* url.Parse fails; otherwise the tokens of the segments of the path that
\* are not empty, then those of the loop over u.Query(), which visits the
\* keys in any order.
ExtractTokensFromURL ==
    /\ tokenResult = <<>>
    /\ \E ord \in RangeOrders(QueryKeys(tokenURL)) :
          tokenResult' =
              << IF tokenURL.ok
                 THEN [tokens |-> PathTokens(Split(tokenURL.path, <<>>))
                                      \o QueryTokens(tokenURL, ord),
                       err |-> FALSE]
                 ELSE [tokens |-> <<>>, err |-> TRUE] >>
    /\ UNCHANGED <<config, ext, newErr, ctxDeadline, ctxErr, reader, input, exPc,
                   ret, finalResults, merged, pipeVars, ctxAtCall, cancelledReading,
                   redirectVars, tokenURL>>

\* A caller takes the tokens of any URL.
InitTokens ==
    \E u \in TokenURLs :
        /\ InitExtract(EmailsOnly, PlainReader, <<>>, FALSE)
        /\ InitRedirect(defaultRedirectParams, NoURL)
        /\ InitWordlist(u)

NextTokens == ExtractTokensFromURL

SpecTokens == InitTokens /\ [][NextTokens]_vars

(***************************************************************************)
(* Properties.                                                             *)
(***************************************************************************)

Started == rpc # "none"

Returned == exPc = "returned"

WorkersDone == \A w \in Workers : wpc[w] = "done"

NoGoroutineStarted ==
    /\ rpc = "none"
    /\ cpc = "none"
    /\ \A w \in Workers : wpc[w] = "none"

\* The union, category by category, of the matches of the chunks inp.
FullResult(cfg, inp) ==
    [UUIDs   |-> MapPutAll(newResults(cfg).UUIDs,
                           UNION {scanLines(cfg, inp[i]).UUIDs.keys : i \in DOMAIN inp}),
     Emails  |-> MapPutAll(newResults(cfg).Emails,
                           UNION {scanLines(cfg, inp[i]).Emails.keys : i \in DOMAIN inp}),
     Domains |-> MapPutAll(newResults(cfg).Domains,
                           UNION {scanLines(cfg, inp[i]).Domains.keys : i \in DOMAIN inp}),
     IPs     |-> MapPutAll(newResults(cfg).IPs,
                           UNION {scanLines(cfg, inp[i]).IPs.keys : i \in DOMAIN inp}),
     Params  |-> MapPutAll(newResults(cfg).Params,
                           UNION {scanLines(cfg, inp[i]).Params.keys : i \in DOMAIN inp})]

\* C1: when a Read call returned an error other than io.EOF and the
\* context was not cancelled, Extract does not return a nil error.
C1_ReadErrorReturned ==
    (Returned /\ rstatus = "err" /\ ctxErr = NoErr) => ret.err # NilError

\* C2: when the context was cancelled while Extract was running and the
\* reader had not reached end-of-stream (and has not reached it since),
\* Extract does not return a nil error.
C2_CancelReturned ==
    (Returned /\ cancelledReading /\ rstatus = "open") => ret.err # NilError

\* C3: when Extract returns a nil error, every category of the result is
\* the union of the matches of all the chunks of the input.
C3_SuccessIsComplete ==
    (Returned /\ ret.err = NilError) => ret.res = FullResult(config, input)

\* C4: when Extract returns after starting its goroutines, the reader and
\* every worker have terminated.
C4_GoroutinesDoneAtReturn ==
    (Returned /\ Started) => (rpc = "done" /\ WorkersDone)

GoroutineStep == (\E w \in Workers : Worker(w)) \/ Reader \/ Closer

AllTerminated ==
    /\ rpc \in {"none", "done"}
    /\ cpc \in {"none", "done"}
    /\ \A w \in Workers : wpc[w] \in {"none", "done"}

\* C5: no goroutine stays blocked forever: once Extract has returned and
\* the context is cancelled, a state in which no goroutine can take a step
\* (none is inside Read, none can send or receive) is a state in which
\* they have all terminated.
C5_NoGoroutineBlockedForever ==
    (Returned /\ ctxErr # NoErr /\ ~ENABLED GoroutineStep) => AllTerminated

\* C6: under fair scheduling and a context that is never cancelled, an
\* Extract that entered its select loop returns a nil error, unless a Read
\* returns an error other than io.EOF.
C6_ReturnsNil ==
    (exPc = "merge") ~> (rstatus = "err" \/ (Returned /\ ret.err = NilError))

\* A stream of several chunks was read to the end and Extract returned nil.
C6_Witness ==
    /\ Returned /\ ret.err = NilError
    /\ ctxErr = NoErr
    /\ Len(input) > maxGoroutines /\ pos = Len(input)
    /\ rstatus = "eof"

\* C7: once the context is cancelled while Extract is in its select loop,
\* Extract returns, whatever the reader and the workers do.
C7_CancelReturns ==
    (exPc = "merge" /\ ctxErr # NoErr) ~> Returned

\* Extract returned the context's error while the reader was inside Read.
C7_Witness ==
    /\ Returned /\ ret.err = ExtractorError("Extract", ctxErr)
    /\ cancelledReading
    /\ rpc = "read"

\* C8: a call of Extract with an already cancelled context returns at once
\* the context's error ('context canceled' after a cancel), without a Read,
\* without starting a goroutine and without any match.
C8_CancelledBeforeCall ==
    (exPc # "idle" /\ ctxAtCall # NoErr) =>
        /\ Returned
        /\ ret.err = ExtractorError("Extract", ctxAtCall)
        /\ ret.res = newResults(config)
        /\ ~hasRead
        /\ NoGoroutineStarted

\* Extract was called with a reader and a cancelled context.
C8_Witness ==
    /\ Returned /\ ctxAtCall = Canceled /\ reader.kind = "plain"
    /\ ret.err = ExtractorError("Extract", Canceled)

TooLargeFailure ==
    /\ Returned
    /\ ret.err = ExtractorError("Extract", ErrTooLarge)
    /\ ~hasRead
    /\ NoGoroutineStarted

\* C9 as stated: for a file, Extract fails with 'file too large', before
\* any Read and any goroutine, exactly when the size exceeds maxFileSize.
C9_Original ==
    (exPc # "idle" /\ reader.kind = "file") =>
        (TooLargeFailure <=> reader.size > maxFileSize)

\* C9 as amended: for a file, when the context is not cancelled at the call
\* and Stat succeeds, Extract fails with 'file too large', before any Read
\* and any goroutine, exactly when the size exceeds maxFileSize (a file of
\* exactly maxFileSize bytes passes); and 'file too large' is only ever
\* reported that way.
C9_FileTooLarge ==
    /\ (exPc # "idle" /\ reader.kind = "file" /\ ctxAtCall = NoErr /\ ~reader.statErr)
          => (TooLargeFailure <=> reader.size > maxFileSize)
    /\ (Returned /\ ret.err.Err = ErrTooLarge)
          => (TooLargeFailure /\ reader.kind = "file" /\ reader.size > maxFileSize)

\* A file of exactly maxFileSize bytes was accepted and read.
C9_Witness ==
    /\ reader.kind = "file" /\ reader.size = maxFileSize
    /\ Started /\ hasRead

\* C10: New returns an extractor exactly when 0 <= UUIDVersion <= 5 and
\* otherwise the 'invalid UUID version' error and no extractor; Extract
\* never runs with a version out of range and never reports that error.
C10_NewValidates ==
    /\ ext # "unset" =>
          /\ ext = "extractor" <=> config.UUIDVersion \in 0..5
          /\ ext = "extractor" => newErr = NilError
          /\ ext = "nil" => newErr = ExtractorError("New", ErrInvalidVersion)
    /\ exPc # "idle" => config.UUIDVersion \in 0..5
    /\ ret.err.Err # ErrInvalidVersion

\* New refused a negative version.
C10_Witness == ext = "nil" /\ config.UUIDVersion < 0

\* Extract returned the failure err of a precondition, before any Read and
\* any goroutine.
PreconditionFailure(err) ==
    /\ Returned
    /\ ret.err = ExtractorError("Extract", err)
    /\ ~hasRead
    /\ NoGoroutineStarted

\* C11: the preconditions of Extract are checked in the order context,
\* reader, file size: a call under a done context fails with the context's
\* error whatever the reader; otherwise a nil reader fails with 'nil
\* reader'; otherwise a file larger than maxFileSize (whose Stat succeeds)
\* fails with 'file too large'; each of these failures comes before any
\* Read and any goroutine.
C11_PrecheckOrder ==
    exPc # "idle" =>
        /\ ctxAtCall # NoErr => PreconditionFailure(ctxAtCall)
        /\ (ctxAtCall = NoErr /\ reader.kind = "nil")
              => PreconditionFailure(ErrNilReader)
        /\ (ctxAtCall = NoErr /\ reader.kind = "file" /\ ~reader.statErr
               /\ reader.size > maxFileSize)
              => PreconditionFailure(ErrTooLarge)

\* Extract was called with a nil reader under a cancelled context and
\* reported the cancellation.
C11_Witness ==
    /\ Returned /\ reader.kind = "nil" /\ ctxAtCall = Canceled
    /\ ret.err = ExtractorError("Extract", Canceled)

\* The categories of a Results value.
Categories == {"UUIDs", "Emails", "Domains", "IPs", "Params"}

\* No category of the Results value r has an entry.
NoEntry(r) == \A c \in Categories : r[c].keys = {}

\* C12: whenever Extract has returned a non-nil error, no category of the
\* returned Results has an entry.
C12_NoPartialOnError ==
    (Returned /\ ret.err # NilError) => NoEntry(ret.res)

\* Extract returned a read error after it had merged matches.
C12_Witness ==
    /\ Returned /\ ret.err = ExtractorError("Extract", ErrRead)
    /\ ~NoEntry(finalResults)

\* The partial results of the chunks of the input.
Partials == {scanLines(config, input[i]) : i \in DOMAIN input}

\* C13: with no cancellation and no read error, the result Extract returns
\* is the union of the matches of the chunks, whichever worker took which
\* chunk and in whatever order the partial results were merged; and merging
\* the partial results into the accumulator is commutative and idempotent.
C13_OrderIrrelevant ==
    /\ (Returned /\ ctxErr = NoErr /\ rstatus = "eof")
          => (ret.err = NilError /\ ret.res = FullResult(config, input))
    /\ exPc = "merge" =>
          \A r1, r2 \in Partials :
              /\ mergeResults(mergeResults(finalResults, r1), r2)
                    = mergeResults(mergeResults(finalResults, r2), r1)
              /\ mergeResults(mergeResults(finalResults, r1), r1)
                    = mergeResults(finalResults, r1)

\* With no cancellation and no read error, the merger has merged the
\* partial result of the second chunk (a domain) before that of the first
\* (a UUID).
C13_Witness ==
    /\ exPc = "merge" /\ ctxErr = NoErr /\ rstatus # "err"
    /\ config = AllEnabled
    /\ finalResults.Domains.keys # {}
    /\ finalResults.UUIDs.keys = {}

\* C14: with no cancellation and no read error, the result Extract returns
\* does not depend on the sizes of the reads: it is the result for the
\* whole text read as one chunk.
C14_ChunkingIrrelevant ==
    (Returned /\ ret.err = NilError /\ ctxErr = NoErr /\ rstatus = "eof")
        => ret.res = scanLines(config, Text(input))

\* Line j of chunk i of the stream inp lies wholly inside the chunk.
WhollyInside(inp, i, j) ==
    /\ ~(j = Len(inp[i]) /\ inp[i][j] \in Heads)
    /\ ~(j = 1 /\ i > 1 /\ inp[i-1] # <<>> /\ inp[i-1][Len(inp[i-1])] \in Heads)

\* C15: on a successful Extract (with no cancellation and no read error)
\* every match of an enabled category on a line that lies wholly inside
\* one chunk is a key of that category of the result, on whichever line
\* of the chunk it is; a category is a set of keys, so a match found
\* several times is there once.
C15_WholeMatchesPresent ==
    (Returned /\ ret.err = NilError /\ ctxErr = NoErr /\ rstatus = "eof") =>
        \A i \in DOMAIN input : \A j \in DOMAIN input[i] :
            WhollyInside(input, i, j) =>
                \A c \in Categories :
                    lineMatches(config, input[i][j])[c] \subseteq ret.res[c].keys

CategoryEnabled(cfg, c) ==
    IF c = "UUIDs" THEN cfg.UUIDVersion > 0
    ELSE IF c = "Emails" THEN cfg.ExtractEmails
    ELSE IF c = "Domains" THEN cfg.ExtractDomains
    ELSE IF c = "IPs" THEN cfg.ExtractIPs
    ELSE cfg.ExtractParams

\* C17: the field of a disabled category is a nil map without any entry
\* in every partial result (in a worker's hands or in the results
\* channel), in the accumulator of the merger and in what Extract returns.
C17_DisabledStaysNil ==
    \A c \in Categories :
        ~CategoryEnabled(config, c) =>
            /\ finalResults[c] = NilMap
            /\ ret.res[c] = NilMap
            /\ \A w \in Workers : wres[w][c] = NilMap
            /\ \A i \in DOMAIN results : results[i][c] = NilMap

\* With emails only enabled, Extract returned the emails of an input that
\* also holds a URL with a query, IP addresses and a UUID.
C17_Witness ==
    /\ Returned /\ ret.err = NilError /\ rstatus = "eof"
    /\ config = EmailsOnly
    /\ Len(input) >= 2 /\ input[2] = DataAt(2)
    /\ ret.res.Emails.keys = {LineEmail}

\* C18: every UUID Extract returns has the version digit of the
\* configuration, which is then in 1..5; a UUID of another version in the
\* input is never returned.
C18_UUIDVersionOnly ==
    \A u \in ret.res.UUIDs.keys \cup finalResults.UUIDs.keys :
        /\ config.UUIDVersion \in 1..5
        /\ VersionDigit(u) = config.UUIDVersion

\* Configured for version 1, Extract returned the UUID of version 1 of an
\* input that also holds a UUID of version 4.
C18_Witness ==
    /\ Returned /\ ret.err = NilError
    /\ config.UUIDVersion = 1
    /\ input \in UUIDInputs
    /\ ret.res.UUIDs.keys = {LineUUID1}

\* Every IP key of the Results value r is a token of four octets of at
\* most 255.
ValidIPs(r) ==
    \A ip \in r.IPs.keys :
        Len(Octets(ip)) = 4 /\ \A k \in 1..4 : Octets(ip)[k] <= 255

\* C19: an IP-shaped token is a key of IPs (in a partial result, in the
\* accumulator, in what Extract returns) only if each of its octets is at
\* most 255; and on a success with no cancellation and no read error the
\* valid address of a chunk that also holds 256.256.256.256 on another
\* line is returned.
C19_ValidOctetsOnly ==
    /\ ValidIPs(ret.res) /\ ValidIPs(finalResults)
    /\ \A w \in Workers : ValidIPs(wres[w])
    /\ \A i \in DOMAIN results : ValidIPs(results[i])
    /\ (Returned /\ ret.err = NilError /\ ctxErr = NoErr /\ rstatus = "eof"
          /\ config.ExtractIPs /\ Len(input) >= 2 /\ input[2] = DataAt(2))
          => ret.res.IPs.keys = {LineIP}

\* Extract returned the valid address of an input that holds
\* 256.256.256.256 as well.
C19_Witness ==
    /\ Returned /\ ret.err = NilError /\ config.ExtractIPs
    /\ \E i \in DOMAIN input : \E j \in DOMAIN input[i] : input[i][j] = LineBadIP
    /\ ret.res.IPs.keys = {LineIP}

\* C20: in the Results of a successful Extract (with no cancellation and
\* no read error) a category without any match is a nil map, also when
\* the category is enabled.
C20_NoMatchIsNil ==
    (Returned /\ ret.err = NilError /\ ctxErr = NoErr /\ rstatus = "eof") =>
        \A c \in Categories : ret.res[c].keys = {} => ret.res[c] = NilMap

\* C21: the command-line tool refuses an input file larger than 100 MB:
\* once run has read a file of more than maxFileSize bytes and called
\* Extract, the call has failed with 'file too large' without reading or
\* starting a goroutine.
C21_RunRefusesLargeFile ==
    (reader.kind = "plain" /\ reader.size > maxFileSize /\ exPc # "idle")
        => TooLargeFailure

\* C22: every Extract call made by the tool runs under a context that has
\* a deadline.
C22_RunAttachesDeadline == exPc # "idle" => ctxDeadline

\* Property helper: the name is one of the configured redirect names,
\* whatever the case of its letters.
Configured(name) ==
    \E i \in DOMAIN redirectParams : EqualFold(name, redirectParams[i])

\* Property helper: the value is shaped like a URL and either the name is
\* configured or the value is neither shorter than 4 characters nor made
\* only of digits.
Qualifies(name, value) ==
    /\ \/ HasPrefix(value, <<"h", "t", "t", "p", ":", "/", "/">>)
       \/ HasPrefix(value, <<"h", "t", "t", "p", "s", ":", "/", "/">>)
       \/ HasPrefix(value, <<"/", "/">>)
    /\ \/ Configured(name)
       \/ ~(Len(value) < 4 \/ \A i \in DOMAIN value : value[i] \in Digits)

\* C23: for a URL that parses, ScanURL records a query parameter value as
\* a match exactly when the value is URL-shaped and the name is configured
\* or the value is neither short nor numeric: every qualifying pair of the
\* query is recorded, every match is a qualifying pair of the query, there
\* are as many matches as qualifying pairs, IsVulnerable tells whether
\* there is a match, and IsKnown tells whether the name is configured.
C23_ScanURLMatches ==
    (scanResult # <<>> /\ urlStr.ok) =>
        LET r == scanResult[1]
            q == urlStr.query
        IN  /\ \A i \in DOMAIN q :
                  Qualifies(q[i][1], q[i][2]) <=>
                      \E j \in DOMAIN r.MatchedParams :
                          /\ r.MatchedParams[j].Name = q[i][1]
                          /\ r.MatchedParams[j].Value = q[i][2]
            /\ \A j \in DOMAIN r.MatchedParams :
                  \E i \in DOMAIN q :
                      /\ r.MatchedParams[j].Name = q[i][1]
                      /\ r.MatchedParams[j].Value = q[i][2]
            /\ Len(r.MatchedParams) =
                  Cardinality({i \in DOMAIN q : Qualifies(q[i][1], q[i][2])})
            /\ r.IsVulnerable <=> Len(r.MatchedParams) >= 1
            /\ \A j \in DOMAIN r.MatchedParams :
                  r.MatchedParams[j].IsKnown <=> Configured(r.MatchedParams[j].Name)

\* ScanURL recorded a value of four characters under a name that is not
\* configured and left out a value that is not shaped like a URL.
C23_Witness ==
    /\ scanResult # <<>> /\ urlStr.ok
    /\ Len(urlStr.query) = 2
    /\ Len(scanResult[1].MatchedParams) = 1
    /\ scanResult[1].MatchedParams[1].Value = <<"/", "/", "e", "v">>
    /\ ~scanResult[1].MatchedParams[1].IsKnown

\* C24: a worker never stays blocked forever once the context is
\* cancelled: there is no state, after the cancellation and the return of
\* Extract (from which on nobody receives from results), in which a worker
\* is in its send on results and the buffer of results is full.
C24_WorkerSendNotBlocked ==
    ~(/\ ctxErr # NoErr
      /\ Returned
      /\ \E w \in Workers : wpc[w] = "send" /\ Len(results) = maxGoroutines)

\* C25: once the context is cancelled the chunk reader never stays blocked
\* forever: there is no state, after the cancellation, in which every
\* worker has exited (from which on nobody receives from chunks) and the
\* reader is in a send on chunks with the buffer of chunks full, the
\* channel still open.
C25_ReaderSendNotBlocked ==
    ~(/\ ctxErr # NoErr
      /\ WorkersDone
      /\ rpc = "send" /\ Len(chunks) = maxGoroutines /\ ~chunksClosed)

C27_NoFoldAfterError == [][merged' # merged => accepted = <<>>]_vars

\* Property helper: the workers that hold a chunk they received and have
\* not yet turned into a partial result being sent.
Holding == {w \in Workers : wpc[w] \in {"select", "process"}}

\* Property helper: the workers in their send of a partial result.
Sending == {w \in Workers : wpc[w] = "send"}

\* Property helper: the union, category by category, of the partial
\* results of the pushed chunks.
PushedResult ==
    [c \in Categories |->
        [alloc |-> newResults(config)[c].alloc,
         keys |-> UNION {scanLines(config, pushed[i].data)[c].keys : i \in DOMAIN pushed}]]

\* C28: with no cancellation and no read error, every chunk the reader
\* pushed is at any time in exactly one place: waiting in chunks, held by
\* the one worker that received it, as its partial result in that worker's
\* send or waiting in results, or merged; a partial result in a send or in
\* results is the one of a pushed chunk; and when Extract returns every
\* chunk of the stream has been pushed, received and merged, the number of
\* merges is the number of chunks and the result is the union of their
\* partial results.
C28_ExactlyOnce ==
    (ctxErr = NoErr /\ rstatus # "err") =>
        /\ Len(pushed) = Len(chunks) + Cardinality(Holding) + Cardinality(Sending)
                            + Len(results) + merged
        /\ \A w \in Holding : \E i \in DOMAIN pushed : wchunk[w] = pushed[i]
        /\ \A w \in Sending :
              \E i \in DOMAIN pushed : wres[w] = scanLines(config, pushed[i].data)
        /\ \A j \in DOMAIN results :
              \E i \in DOMAIN pushed : results[j] = scanLines(config, pushed[i].data)
        /\ (Returned /\ Started) =>
              /\ chunks = <<>> /\ results = <<>> /\ WorkersDone
              /\ pushed = [i \in DOMAIN input |-> Chunk(input[i], NoErr)]
              /\ merged = Len(pushed)
              /\ finalResults = PushedResult

\* Extract returned after merging the partial results of three chunks or
\* more, the first and the third equal.
C28_Witness ==
    /\ Returned /\ ret.err = NilError /\ ctxErr = NoErr
    /\ Len(pushed) >= 3 /\ merged = Len(pushed)
    /\ pushed[1] = pushed[3]

\* Property helper: the data chunks among the chunks a sequence holds.
DataChunks(cs) ==
    LET isData(c) == c.err = NoErr
    IN  SelectSeq(cs, isData)

\* Property helper: the number of Read calls that have returned bytes and
\* whose bytes the reader has sent.
ReadsSent == pos - (IF rpc = "send" /\ rchunk.c.err = NoErr THEN 1 ELSE 0)

\* C29: for a stream read without error, the data chunks pushed are, in
\* push order, exactly the pieces returned by the successive Read calls
\* that returned bytes, one chunk per Read (so that no byte is skipped or
\* duplicated and a Read of zero bytes produces no chunk), and every data
\* chunk holds between 1 and chunkSize bytes.
C29_ChunksAreReads ==
    rstatus # "err" =>
        /\ Len(DataChunks(pushed)) = ReadsSent
        /\ \A i \in DOMAIN DataChunks(pushed) :
              /\ DataChunks(pushed)[i].data = input[i]
              /\ DataBytes(DataChunks(pushed)[i].data) \in 1..chunkSize

\* The whole of a stream of three reads or more was pushed, up to io.EOF.
C29_Witness ==
    /\ rstatus = "eof" /\ rpc = "done"
    /\ Len(input) >= 3
    /\ DataChunks(pushed) = [i \in DOMAIN input |-> Chunk(input[i], NoErr)]

\* Property helper: the positions of the error chunks among the pushed ones.
ErrorChunks == {i \in DOMAIN pushed : pushed[i].err # NoErr}

\* C30: the reader is in a Read call only while no Read has returned
\* io.EOF or an error, and after such a Read it only sends what it holds
\* and returns; an iteration that starts when the context is cancelled
\* goes to the send of the error chunk and not to a Read; at most one
\* error chunk is ever pushed, and nothing is pushed after it.
C30_NoReadAfterEnd ==
    /\ [](rpc = "read" => rstatus = "open")
    /\ [](rstatus # "open" => rpc \in {"send", "done"})
    /\ [](/\ Cardinality(ErrorChunks) <= 1
          /\ ErrorChunks \subseteq {Len(pushed)}
          /\ ErrorChunks # {} => rpc = "done")
    /\ [][(rpc = "select" /\ rpc' # "select" /\ ctxErr # NoErr) =>
              (rpc' = "send" /\ rchunk'.c.err = ctxErr /\ rchunk'.last)]_vars

\* The context was cancelled between two reads: the reader pushed data,
\* then the error chunk of the cancellation, and returned without a Read
\* having ended the stream.
C30_Witness ==
    /\ rpc = "done" /\ ctxErr # NoErr /\ rstatus = "open"
    /\ Len(pushed) >= 2
    /\ pushed[Len(pushed)].err = ctxErr

\* C31: the final result is written only by the goroutine that runs
\* Extract, during the call: no step of a worker, of the reader or of the
\* closer changes it, and it changes only when Extract merges the partial
\* result it has just received, as it was sent; a partial result waiting in
\* results is not modified: results only loses its head or gains a tail.
C31_MergerOwnsFinalResult ==
    [][/\ GoroutineStep => finalResults' = finalResults
       /\ finalResults' # finalResults =>
             /\ exPc = "merge" /\ results # <<>>
             /\ results' = Tail(results)
             /\ finalResults' = mergeResults(finalResults, Head(results))
       /\ \/ results' = results
          \/ results # <<>> /\ results' = Tail(results)
          \/ /\ Len(results') = Len(results) + 1
             /\ SubSeq(results', 1, Len(results)) = results
             /\ \E w \in Sending : results'[Len(results')] = wres[w]]_vars

\* A partial result holding a match waits in results for Extract, which is
\* in its merge loop, while a worker is processing another chunk.
C31_Witness ==
    /\ exPc = "merge"
    /\ results # <<>>
    /\ Head(results).Emails.keys # {}
    /\ \E w \in Workers : wpc[w] = "process"

\* C32: no goroutine sends on a closed channel and no channel is closed
\* twice: a step that adds an item to chunks, results or errors finds that
\* channel open; chunks is closed by the reader's return, after which the
\* reader holds no chunk and takes no step; results and errors are each
\* closed once, by the closer, when every worker has returned.
C32_NoSendOnClosed ==
    [][/\ Len(chunks') > Len(chunks) => ~chunksClosed
       /\ Len(results') > Len(results) => ~resultsClosed
       /\ Len(errors') > Len(errors) => ~errorsClosed
       /\ chunksClosed => rpc = "done" /\ ~ENABLED Reader
       /\ chunksClosed' # chunksClosed =>
             /\ ~chunksClosed /\ rpc' = "done"
             /\ rchunk'.c = NoChunk /\ Len(chunks') >= Len(chunks)
       /\ resultsClosed' # resultsClosed =>
             ~resultsClosed /\ WorkersDone /\ cpc = "wait" /\ cpc' # "wait"
       /\ errorsClosed' # errorsClosed =>
             ~errorsClosed /\ WorkersDone /\ resultsClosed /\ cpc' = "done"
       /\ cpc = "done" => ~ENABLED Closer]_vars

\* A call in which chunks were sent, a partial result was merged and an
\* error was taken by errors, and all three channels are now closed.
C32_Witness ==
    /\ chunksClosed /\ resultsClosed /\ errorsClosed
    /\ Len(pushed) >= 2
    /\ merged >= 1
    /\ accepted # <<>>

\* The data chunks read from the input whose processing is not finished:
\* those read, less those whose partial result was computed (merged, waiting
\* in results, or held by a worker about to send it).
Unfinished == pos - (merged + Len(results) + Cardinality(Sending))

\* C33: during an Extract call at most 2*maxGoroutines + 1 data chunks are
\* read but not processed, whatever the length of the input; chunks and
\* results never hold more than maxGoroutines items, errors never more than
\* one.
C33_BoundedInFlight ==
    /\ Unfinished >= 0
    /\ Unfinished <= 2 * maxGoroutines + 1
    /\ Len(chunks) <= maxGoroutines
    /\ Len(results) <= maxGoroutines
    /\ Len(errors) <= errorsCap

\* The bound is met on an input longer than the bound: chunks is full, every
\* worker holds a chunk it has not processed, and the reader waits to send
\* one more.
C33_Witness ==
    /\ Len(input) > 2 * maxGoroutines + 1
    /\ Unfinished = 2 * maxGoroutines + 1
    /\ Len(chunks) = maxGoroutines
    /\ rpc = "send"
    /\ \A w \in Workers : wpc[w] \in {"select", "process"}

\* C34: every string in the result of a successful Extract is a match of
\* its category's matcher on a complete line of the original input: cutting
\* the input into chunks adds no string that no whole line yields (stated
\* for the calls with no cancellation and no read error).
C34_OnlyWholeLineMatches ==
    (Returned /\ ret.err = NilError /\ ctxErr = NoErr /\ rstatus = "eof") =>
        \A c \in Categories :
            ret.res[c].keys \subseteq scanLines(config, Text(input))[c].keys

\* The lines of the input that do not fit the scanner's buffer.
LongLines ==
    {line \in UNION {{input[i][j] : j \in DOMAIN input[i]} : i \in DOMAIN input} :
        TooLong(line)}

\* C35: a line of 64 KiB or more inside a chunk does not make Extract fail:
\* with no cancellation and no read error Extract returns a nil error, and
\* no match of that line is in the result.
C35_LongLineIgnored ==
    (Returned /\ ctxErr = NoErr /\ rstatus = "eof" /\ LongLines # {}) =>
        /\ ret.err = NilError
        /\ \A line \in LongLines : \A c \in Categories :
               lineMatches(config, line)[c] \cap ret.res[c].keys = {}

\* Extract has returned for an input with a long line that the enabled
\* email matcher matches.
C35_Witness ==
    /\ Returned /\ ctxErr = NoErr /\ rstatus = "eof"
    /\ \E line \in LongLines : lineMatches(config, line).Emails # {}
    /\ ret.err = NilError

\* C36: for every URL and every detector DetectRedirectParams returns the
\* boolean that ScanURL reports as IsVulnerable; both are false for a URL
\* that does not parse and for a URL without query parameters.
C36_DetectAgreesWithScan ==
    (scanResult # <<>> /\ detectResult # <<>>) =>
        /\ detectResult[1] = scanResult[1].IsVulnerable
        /\ (~urlStr.ok \/ urlStr.query = <<>>) =>
              (~detectResult[1] /\ ~scanResult[1].IsVulnerable)

\* Both functions were called on a query of two parameters of which ScanURL
\* matched one, and on it DetectRedirectParams returned true.
C36_Witness ==
    /\ scanResult # <<>> /\ detectResult # <<>>
    /\ urlStr.ok /\ Len(urlStr.query) = 2
    /\ Len(scanResult[1].MatchedParams) = 1
    /\ ~scanResult[1].MatchedParams[1].IsKnown
    /\ detectResult[1]

\* The keys of the query of u in the order of their first appearance.
AppearanceOrder(u) ==
    LET first(k) == CHOOSE i \in DOMAIN u.query :
                        /\ u.query[i][1] = k
                        /\ \A j \in 1..(i - 1) : u.query[j][1] # k
    IN  CHOOSE o \in RangeOrders(QueryKeys(u)) :
            \A a, b \in DOMAIN o : a < b => first(o[a]) < first(o[b])

\* C37: ExtractTokensFromURL returns the tokens in their order of
\* appearance in the URL: those of the path segments in path order, then
\* each query key followed by its values, the keys in the order in which
\* they appear in the query; so the same URL always gives the same sequence.
C37_TokensInURLOrder ==
    (tokenResult # <<>> /\ tokenURL.ok) =>
        tokenResult[1].tokens =
            PathTokens(Split(tokenURL.path, <<>>))
                \o QueryTokens(tokenURL, AppearanceOrder(tokenURL))

====
